---- MODULE Spec2Model ----
(***************************************************************************)
(* pypeman: the node execution contract (pypeman/nodes.py) and the legacy  *)
(* remote-admin session (pypeman/plugins/remoteadmin/views.py).            *)
(*                                                                         *)
(* Three state machines share this module:                                 *)
(*   SpecThread  - overlapping ThreadNode.handle invocations on one stage  *)
(*   SpecChain   - one message walking a chain of nodes                    *)
(*   SpecSession - legacy websocket sessions (backport_old_client)         *)
(***************************************************************************)
EXTENDS Integers, Sequences, FiniteSets, TLC

(* ---------------------------------------------------------------------- *)
(* Bounds                                                                  *)
(* ---------------------------------------------------------------------- *)
\* number of overlapping handle invocations on the one ThreadNode instance
MaxTasks == 2

\* longest chain walked
MaxChain == 3

\* frames one session may receive
MaxFrames == 2

\* store mutations other sessions make while one list_msgs is suspended
MaxOther == 1

\* fields of a JSON object, items of a JSON array
MaxFields == 2

Tasks == 1..MaxTasks

(* ---------------------------------------------------------------------- *)
(* State                                                                   *)
(* ---------------------------------------------------------------------- *)
VARIABLES
    stage,       \* the process method the ThreadNode instance runs (a NodeKinds)
    tpc,         \* per invocation: idle, submitted, running, finished, returned
    tmsg,        \* per invocation: the msg argument
    texec,       \* per invocation: the executor its with-block holds (0: none)
    executors,   \* the live ThreadPoolExecutor objects
    workQueue,   \* per executor: the submitted work items, oldest first
    workerBusy,  \* per executor: the invocation its one worker runs (0: idle)
    future,      \* per invocation: what run_in_executor's future holds
    outcome      \* per invocation: what handle gave its caller

threadVars == <<stage, tpc, tmsg, texec, executors, workQueue, workerBusy,
                future, outcome>>

VARIABLES
    chain,    \* the ordered node kinds of the channel
    cidx,     \* position of the next node to invoke
    cinput,   \* the message as submitted
    cmsg,     \* the message as transformed so far
    invoked,  \* the positions handle has been called on, in call order
    report,   \* none, completed, consumed, terminated_early, error
    output    \* the message reported as the result (NoResult: none)

chainVars == <<chain, cidx, cinput, cmsg, invoked, report, output>>

VARIABLES
    spc,         \* the session coroutine: recv, await, returned, raised, closed
    cur,         \* the frame being handled (NoFrame before the first)
    rpc_data,    \* ws.rpc_data, the attribute set_rpc_attrs assigns
    wsTruthy,    \* bool(ws) of a WebSocketResponse that stores no items
    hws,         \* the socket object the running handler sends on: rpc, plain
    called,      \* the handler invoked for the current frame ("none": none)
    caught,      \* the exception the handler's try block caught ("none")
    pending,     \* the collaborator call the handler is suspended on
    frameSent,   \* response frames sent since the current frame arrived
    lastSent,    \* the last response frame sent to the client
    error,       \* the exception that ended the session coroutine
    nframes,     \* frames received so far
    chanStatus,  \* per channel: its status
    store,       \* per channel: the number of messages its store holds
    relQuery,    \* request.rel_url.query, the query of the upgrade request
    searchArgs,  \* the arguments of the last message_store.search call
    otherOps     \* store mutations made by other sessions so far

sessionVars == <<spc, cur, rpc_data, wsTruthy, hws, called, caught, pending,
                 frameSent, lastSent, error, nframes, chanStatus, store,
                 relQuery, searchArgs, otherOps>>

vars == <<threadVars, chainVars, sessionVars>>

(* ---------------------------------------------------------------------- *)
(* Messages and the process methods of the nodes                           *)
(* ---------------------------------------------------------------------- *)
Payloads == {"p1", "p2"}

ContentTypes == {"application/text", "application/json"}

\* pypeman.message.Message as far as the nodes touch it
Messages == [payload : Payloads \cup {"None"}, content_type : ContentTypes]

\* Message(): a message with no payload
EmptyMessage == [payload |-> "None", content_type |-> "application/text"]

InputMessages == [payload : Payloads, content_type : ContentTypes]

\* the classes of nodes.py whose process needs no payload codec
NodeKinds == {"BaseNode", "RaiseError", "DropNode", "BreakNode", "Log", "Empty"}

Returned(m) == [tag |-> "return", msg |-> m]

Raised(e) == [tag |-> "raise", exc |-> e]

NoResult == [tag |-> "none"]

Ok(v) == [tag |-> "ok", value |-> v]

(* ---------------------------------------------------------------------- *)
(* The JSON codec of JsonToPython and PythonToJson                         *)
(*                                                                         *)
(* A JSON text is a sequence of tokens: punctuation, the blank, and the    *)
(* literals of numbers, strings, true and null. A decoded value is a       *)
(* record: a scalar [t, v], a list [t, items] or a dict [t, keys, vals]    *)
(* with its keys in insertion order. Values nest one level deep.          *)
(* ---------------------------------------------------------------------- *)
StringTokens == {"\"a\"", "\"b\"", "\"\\u0061\""}

ScalarTokens == {"1", "1.0", "1.00", "null", "true"} \cup StringTokens

\* the value of a literal: "1.00" is the float 1.0, the escape \u0061 is the
\* letter a
ScalarOf(tok) ==
    CASE tok = "1"    -> [t |-> "int",   v |-> "1"]
      [] tok = "1.0"  -> [t |-> "float", v |-> "1.0"]
      [] tok = "1.00" -> [t |-> "float", v |-> "1.0"]
      [] tok = "null" -> [t |-> "NoneType", v |-> "None"]
      [] tok = "true" -> [t |-> "bool",  v |-> "True"]
      [] tok = "\"a\"" -> [t |-> "str", v |-> "a"]
      [] tok = "\"b\"" -> [t |-> "str", v |-> "b"]
      [] tok = "\"\\u0061\"" -> [t |-> "str", v |-> "a"]

\* the literal json.dumps writes for a scalar
ScalarText(val) ==
    CASE val.t = "NoneType" -> "null"
      [] val.t = "bool"     -> "true"
      [] val.t = "str" /\ val.v = "a" -> "\"a\""
      [] val.t = "str" /\ val.v = "b" -> "\"b\""
      [] OTHER -> val.v

Text(toks) == [t |-> "text", toks |-> toks]

IsBlank(tok) == tok = " "

NotBlank(tok) == ~IsBlank(tok)

EmptyDict == [t |-> "dict", keys |-> <<>>, vals |-> <<>>]

\* d[k] = v: a key already present keeps its place and takes the new value
DictPut(d, k, v) ==
    IF \E i \in DOMAIN d.keys : d.keys[i] = k
    THEN [d EXCEPT !.vals[CHOOSE i \in DOMAIN d.keys : d.keys[i] = k] = v]
    ELSE [d EXCEPT !.keys = Append(@, k), !.vals = Append(@, v)]

\* the dict of the fields at positions 1..n of "key : value , key : value"
RECURSIVE DictOfFields(_, _)
DictOfFields(body, n) ==
    IF n = 0 THEN EmptyDict
    ELSE DictPut(DictOfFields(body, n - 1),
                 ScalarOf(body[4 * n - 3]).v, ScalarOf(body[4 * n - 1]))

\* json.loads on a text
Loads(toks) ==
    LET s == SelectSeq(toks, NotBlank)
        n == Len(s)
        body == SubSeq(s, 2, n - 1)
        m == n - 2
    IN
    IF n = 1 /\ s[1] \in ScalarTokens THEN Ok(ScalarOf(s[1]))
    ELSE IF n >= 2 /\ s[1] = "[" /\ s[n] = "]"
              /\ (m = 0 \/ m % 2 = 1)
              /\ \A i \in 1..m : IF i % 2 = 1 THEN body[i] \in ScalarTokens
                                   ELSE body[i] = ","
    THEN Ok([t |-> "list",
             items |-> [i \in 1..((m + 1) \div 2) |-> ScalarOf(body[2 * i - 1])]])
    ELSE IF n >= 2 /\ s[1] = "{" /\ s[n] = "}"
              /\ (m = 0 \/ m % 4 = 3)
              /\ \A i \in 1..m :
                    CASE i % 4 = 1 -> body[i] \in StringTokens
                      [] i % 4 = 2 -> body[i] = ":"
                      [] i % 4 = 3 -> body[i] \in ScalarTokens
                      [] OTHER     -> body[i] = ","
    THEN Ok(DictOfFields(body, (m + 1) \div 4))
    ELSE Raised("JSONDecodeError")

\* items joined by ", "
RECURSIVE Joined(_)
Joined(parts) ==
    IF Len(parts) = 0 THEN <<>>
    ELSE IF Len(parts) = 1 THEN parts[1]
    ELSE parts[1] \o <<",", " ">> \o Joined(Tail(parts))

\* mutation: json.dumps leaves out the fields whose value is None
DumpsSkipsNone(val) ==
    CASE val.t = "list" ->
            <<"[">> \o Joined([i \in DOMAIN val.items |->
                                  <<ScalarText(val.items[i])>>]) \o <<"]">>
      [] val.t = "dict" ->
            LET kept == SelectSeq([i \in DOMAIN val.keys |-> i],
                                  LAMBDA i : val.vals[i].t # "NoneType") IN
            <<"{">> \o Joined([j \in DOMAIN kept |->
                                  <<ScalarText([t |-> "str", v |-> val.keys[kept[j]]]),
                                    ":", " ", ScalarText(val.vals[kept[j]])>>])
                   \o <<"}">>
      [] OTHER -> <<ScalarText(val)>>

\* json.dumps on a decoded value: separators ", " and ": ", the keys of a
\* dict in insertion order
Dumps(val) ==
    CASE val.t = "list" ->
            <<"[">> \o Joined([i \in DOMAIN val.items |->
                                  <<ScalarText(val.items[i])>>]) \o <<"]">>
      [] val.t = "dict" ->
            <<"{">> \o Joined([i \in DOMAIN val.keys |->
                                  <<ScalarText([t |-> "str", v |-> val.keys[i]]),
                                    ":", " ", ScalarText(val.vals[i])>>])
                   \o <<"}">>
      [] OTHER -> <<ScalarText(val)>>

\* JsonToPython.process: json.loads takes a text; any other payload is a
\* TypeError, a text that is no JSON a JSONDecodeError
JsonToPythonProcess(msg) ==
    IF msg.payload.t # "text" THEN Raised("TypeError")
    ELSE LET r == Loads(msg.payload.toks) IN
         IF r.tag = "raise" THEN r
         ELSE Returned([payload |-> r.value, content_type |-> "application/python"])

\* PythonToJson.process
PythonToJsonProcess(msg) ==
    Returned([payload |-> Text(Dumps(msg.payload)),
              content_type |-> "application/json"])

\* mutation: DropNode.process returns the message instead of raising Dropped
ProcessDropReturns(kind, msg) ==
    CASE kind = "RaiseError" -> Raised("Exception")
      [] kind = "BreakNode"  -> Raised("Break")
      [] kind = "Empty"      -> Returned(EmptyMessage)
      [] OTHER               -> Returned(msg)

\* mutation: BreakNode.process returns an empty message instead of raising
ProcessBreakReturns(kind, msg) ==
    CASE kind = "RaiseError" -> Raised("Exception")
      [] kind = "DropNode"   -> Raised("Dropped")
      [] kind = "BreakNode"  -> Returned(EmptyMessage)
      [] kind = "Empty"      -> Returned(EmptyMessage)
      [] OTHER               -> Returned(msg)

\* mutation: RaiseError.process raises Dropped instead of Exception
ProcessErrorDrops(kind, msg) ==
    CASE kind = "BaseNode"   -> Returned(msg)
      [] kind = "RaiseError" -> Raised("Dropped")
      [] kind = "DropNode"   -> Raised("Dropped")
      [] kind = "BreakNode"  -> Raised("Break")
      [] kind = "Log"        -> Returned(msg)
      [] kind = "Empty"      -> Returned(EmptyMessage)

\* process(self, msg) of each class: what it returns or raises
Process(kind, msg) ==
    CASE kind = "BaseNode"     -> Returned(msg)
      [] kind = "RaiseError"   -> Raised("Exception")
      [] kind = "DropNode"     -> Raised("Dropped")
      [] kind = "BreakNode"    -> Raised("Break")
      [] kind = "Log"          -> Returned(msg)
      [] kind = "Empty"        -> Returned(EmptyMessage)
      [] kind = "JsonToPython" -> JsonToPythonProcess(msg)
      [] kind = "PythonToJson" -> PythonToJsonProcess(msg)

\* BaseNode.handle: the coroutine wraps process; a return value is returned,
\* an exception propagates to the caller unchanged
BaseNodeHandle(kind, msg) == Process(kind, msg)

(* ---------------------------------------------------------------------- *)
(* ThreadNode.handle                                                       *)
(* ---------------------------------------------------------------------- *)
\* executor identities: one can be created per invocation
ExecutorIds == Tasks

\* the process calls of the stage instance that are running right now
Running == {t \in Tasks : tpc[t] = "running"}

\* the handle invocations that have entered the with-block and not left it
InProgress == {t \in Tasks : tpc[t] \in {"submitted", "running", "finished"}}

ThreadInit ==
    /\ stage \in NodeKinds
    /\ tpc = [t \in Tasks |-> "idle"]
    /\ tmsg = [t \in Tasks |-> EmptyMessage]
    /\ texec = [t \in Tasks |-> 0]
    /\ executors = {}
    /\ workQueue = [e \in ExecutorIds |-> <<>>]
    /\ workerBusy = [e \in ExecutorIds |-> 0]
    /\ future = [t \in Tasks |-> NoResult]
    /\ outcome = [t \in Tasks |-> NoResult]

\* ThreadPoolExecutor(max_workers=1) evaluated inside handle: a new executor
\* object for every invocation
NewExecutor(t) == t

\* mutation: the with-block leaves the executor running when the work raised
ExitKeepsOnFailure(execs, e, fut) ==
    IF fut.tag = "raise" THEN execs ELSE execs \ {e}

\* ThreadPoolExecutor.__exit__: shutdown(wait=True), whatever ended the block
ExecutorExit(execs, e, fut) == execs \ {e}

\* mutation: the worker's exception never reaches the future; the message
\* comes back as if process had returned it
FutureSwallowsException(res, msg) ==
    IF res.tag = "raise" THEN Returned(msg) ELSE res

\* the future run_in_executor returns: the result of process or its exception
\* mutation: a Dropped or Break raised in the worker reaches the caller as a
\* plain Exception
FutureWrapsSignals(res, msg) ==
    IF res.tag = "raise" /\ res.exc \in {"Dropped", "Break"}
    THEN Raised("Exception") ELSE res

FutureOf(res, msg) == res

\* handle up to its first suspension: enter the with-block, submit process
HandleEnter(t, m) ==
    /\ tpc[t] = "idle"
    /\ LET e == NewExecutor(t) IN
        /\ executors' = executors \cup {e}
        /\ texec' = [texec EXCEPT ![t] = e]
        /\ workQueue' = [workQueue EXCEPT ![e] = Append(@, t)]
    /\ tmsg' = [tmsg EXCEPT ![t] = m]
    /\ tpc' = [tpc EXCEPT ![t] = "submitted"]
    /\ UNCHANGED <<stage, workerBusy, future, outcome>>
    /\ UNCHANGED <<chainVars, sessionVars>>

\* the one worker of executor e takes the oldest work item and calls process
WorkerStart(e) ==
    /\ e \in executors
    /\ workerBusy[e] = 0
    /\ workQueue[e] # <<>>
    /\ LET t == Head(workQueue[e]) IN
        /\ workerBusy' = [workerBusy EXCEPT ![e] = t]
        /\ tpc' = [tpc EXCEPT ![t] = "running"]
    /\ workQueue' = [workQueue EXCEPT ![e] = Tail(@)]
    /\ UNCHANGED <<stage, tmsg, texec, executors, future, outcome>>
    /\ UNCHANGED <<chainVars, sessionVars>>

\* process returns or raises on the worker; the future is resolved
WorkerFinish(e) ==
    /\ workerBusy[e] # 0
    /\ LET t == workerBusy[e] IN
        /\ future' = [future EXCEPT
                         ![t] = FutureOf(Process(stage, tmsg[t]), tmsg[t])]
        /\ tpc' = [tpc EXCEPT ![t] = "finished"]
    /\ workerBusy' = [workerBusy EXCEPT ![e] = 0]
    /\ UNCHANGED <<stage, tmsg, texec, executors, workQueue, outcome>>
    /\ UNCHANGED <<chainVars, sessionVars>>

\* the event loop resumes handle: yield from gives the result or raises the
\* exception, the with-block exits, handle returns or raises to its caller
HandleResume(t) ==
    /\ tpc[t] = "finished"
    /\ executors' = ExecutorExit(executors, texec[t], future[t])
    /\ texec' = [texec EXCEPT ![t] = 0]
    /\ outcome' = [outcome EXCEPT ![t] = future[t]]
    /\ tpc' = [tpc EXCEPT ![t] = "returned"]
    /\ UNCHANGED <<stage, tmsg, workQueue, workerBusy, future>>
    /\ UNCHANGED <<chainVars, sessionVars>>

ThreadNext ==
    \/ \E t \in Tasks, m \in InputMessages : HandleEnter(t, m)
    \/ \E e \in ExecutorIds : WorkerStart(e)
    \/ \E e \in ExecutorIds : WorkerFinish(e)
    \/ \E t \in Tasks : HandleResume(t)

(* ---------------------------------------------------------------------- *)
(* Execution results and the Pipeline Runner                               *)
(* ---------------------------------------------------------------------- *)
\* the outcome a handle call stands for: a returned message continues the
\* walk, Dropped and Break are control signals, anything else is an error
ExecutionResult(res) ==
    CASE res.tag = "return"                         -> [tag |-> "Continue", msg |-> res.msg]
      [] res.tag = "raise" /\ res.exc = "Dropped"   -> [tag |-> "Drop"]
      [] res.tag = "raise" /\ res.exc = "Break"     -> [tag |-> "Break"]
      [] OTHER                                      -> [tag |-> "Error", cause |-> res.exc]

Chains == UNION {[1..n -> NodeKinds] : n \in 1..MaxChain}

ChainIdle ==
    /\ chain = <<>>
    /\ cidx = 1
    /\ cinput = EmptyMessage
    /\ cmsg = EmptyMessage
    /\ invoked = <<>>
    /\ report = "none"
    /\ output = NoResult

ChainInit ==
    /\ chain \in Chains
    /\ cidx = 1
    /\ cinput \in InputMessages
    /\ cmsg = cinput
    /\ invoked = <<>>
    /\ report = "none"
    /\ output = NoResult

\* one iteration: call handle on the next node and interpret its result
RunnerStep ==
    /\ report = "none"
    /\ cidx <= Len(chain)
    /\ invoked' = Append(invoked, cidx)
    /\ LET r == ExecutionResult(BaseNodeHandle(chain[cidx], cmsg)) IN
        CASE r.tag = "Continue" ->
                /\ cmsg' = r.msg
                /\ cidx' = cidx + 1
                /\ UNCHANGED <<report, output>>
          [] r.tag = "Drop" ->
                /\ report' = "consumed"
                /\ UNCHANGED <<cmsg, cidx, output>>
          [] r.tag = "Break" ->
                /\ report' = "terminated_early"
                /\ output' = cmsg
                /\ UNCHANGED <<cmsg, cidx>>
          [] r.tag = "Error" ->
                /\ report' = "error"
                /\ UNCHANGED <<cmsg, cidx, output>>
    /\ UNCHANGED <<chain, cinput, threadVars, sessionVars>>

\* every node ran: the last message is the output
RunnerComplete ==
    /\ report = "none"
    /\ cidx > Len(chain)
    /\ report' = "completed"
    /\ output' = cmsg
    /\ UNCHANGED <<chain, cidx, cinput, cmsg, invoked>>
    /\ UNCHANGED <<threadVars, sessionVars>>

ChainNext == RunnerStep \/ RunnerComplete

\* the message after stages 1..n of the chain have each returned
RECURSIVE MessageAfter(_, _, _)
MessageAfter(c, m, n) ==
    IF n = 0 THEN m
    ELSE LET r == Process(c[n], MessageAfter(c, m, n - 1)) IN
         IF r.tag = "return" THEN r.msg ELSE MessageAfter(c, m, n - 1)

\* a stage that hands a message on, whatever the message
Continues(kind) ==
    \A m \in Messages : ExecutionResult(BaseNodeHandle(kind, m)).tag = "Continue"

(* ---------------------------------------------------------------------- *)
(* JSON texts and the frames of a legacy session                           *)
(* ---------------------------------------------------------------------- *)
\* JSON null, Python None
Null == "null"

\* a command object without an "id" key
NoId == 0

Ids == {1, 2}

KnownMethods == {"channels", "preview_msg", "view_msg", "replay_msg",
                 "list_msgs", "start_channel", "stop_channel"}

\* a command object without a "method" key
NoMethod == "<absent>"

Methods == KnownMethods \cup {"bogus"}

\* channels.all_channels, in registration order
AllChannels == << [name |-> "chan_a", parent |-> Null],
                  [name |-> "chan_b", parent |-> "chan_a"] >>

ChannelNames == {AllChannels[i].name : i \in DOMAIN AllChannels}

\* the ids the store of a channel hands out, oldest first
MsgNames == <<"m1", "m2", "m3", "m4", "m5", "m6", "m7", "m8", "m9", "m10",
              "m11", "m12">>

StoredIds(n) == {MsgNames[i] : i \in 1..n}

ChanArgs == {"chan_a", "nochan"}

MidArgs == {"m1", "m_unknown"}

\* the params arrays clients send
ParamLists ==
    {<<>>}
    \cup {<<c>> : c \in ChanArgs}
    \cup {<<c, m>> : c \in ChanArgs, m \in MidArgs}
    \cup {<<c, Null, Null, Null, Null, Null, Null, Null>> : c \in ChanArgs}

\* the JSON objects clients send as commands
Commands ==
    {[type |-> "object", method |-> m, id |-> i, hasParams |-> h, params |-> p] :
        m \in Methods \cup {NoMethod}, i \in Ids \cup {NoId},
        h \in BOOLEAN, p \in ParamLists} \
    {c \in [type : {"object"}, method : Methods \cup {NoMethod},
            id : Ids \cup {NoId}, hasParams : {FALSE}, params : ParamLists] :
        c.params # <<>>}

\* A text is a sequence of pieces: the text of one whole JSON document, or
\* literal characters that are not one.
Doc(v) == [tok |-> "doc", value |-> v]

Lit(str) == [tok |-> "lit", value |-> [type |-> "chars", text |-> str]]

\* json.dumps
JsonDumps(v) == <<Doc(v)>>

\* json.loads: the text must be exactly one JSON document
JsonLoads(text) ==
    IF Len(text) = 1 /\ text[1].tok = "doc"
    THEN Ok(text[1].value)
    ELSE Raised("JSONDecodeError")

\* f"cannot parse ws json data ({msg.data})"
ParseErrorText(data) ==
    <<Lit("cannot parse ws json data (")>> \o data \o <<Lit(")")>>

\* f"{cmd_method} is not a valid method"
InvalidMethodText(method) == <<Lit(method), Lit(" is not a valid method")>>

\* what arrives on the socket
FrameData ==
    {JsonDumps(c) : c \in Commands}
    \cup {JsonDumps([type |-> "array"])}
    \cup {<<Lit("garbage")>>}

NoFrame == <<>>

NoData == [type |-> "unset"]

NoPending == [tag |-> "none", op |-> "none", chan |-> Null, message_id |-> Null,
              found |-> 0]

\* RPCWebSocketResponse.set_rpc_attrs
SetRpcAttrs(old, request_data) == request_data

\* RPCWebSocketResponse.send_str: the frame put on the socket, or the
\* exception raised before anything is sent
RPCSendStr(rpc, message) ==
    LET loaded == JsonLoads(message) IN
    IF loaded.tag = "raise" THEN loaded
    ELSE IF rpc.type = "unset" THEN Raised("AttributeError")
    ELSE IF rpc.type # "object" THEN Raised("TypeError")
    ELSE IF rpc.id = NoId THEN Raised("KeyError")
    ELSE [tag |-> "frame", result |-> loaded.value, id |-> rpc.id]

\* web.WebSocketResponse.send_str: the text goes out as it is
PlainSendStr(message) ==
    [tag |-> "plain", result |-> JsonLoads(message).value, id |-> NoId]

\* "if ws is None" (list_channels, list_msgs) keeps the socket it was given;
\* "if not ws" (the other handlers) keeps it only when the object is truthy,
\* and otherwise sends on a web.WebSocketResponse() of its own. aiohttp's
\* response classes are mappings of stored items, so an object that stores
\* none is falsy unless the installed version defines __bool__.
HandlerWs(handler, truthy) ==
    IF handler \in {"list_channels", "list_msgs"} \/ truthy THEN "rpc" ELSE "plain"

\* get_channel: the first channel of that name, or None
GetChannel(name) ==
    IF \E i \in DOMAIN AllChannels : AllChannels[i].name = name
    THEN AllChannels[CHOOSE i \in DOMAIN AllChannels :
                        /\ AllChannels[i].name = name
                        /\ \A j \in 1..(i - 1) : AllChannels[j].name # name].name
    ELSE Null

Call(h, c, m) == [tag |-> "call", handler |-> h, channelname |-> c, message_id |-> m]

\* backport_old_client after set_rpc_attrs: pop the method, read params,
\* unpack the positions the method needs, choose the handler
Dispatch(cmd) ==
    IF cmd.type # "object" THEN Raised("TypeError")
    ELSE IF cmd.method = NoMethod THEN Raised("KeyError")
    ELSE LET params == IF cmd.hasParams THEN cmd.params ELSE <<Null>> IN
         IF Len(params) < 1 THEN Raised("IndexError")
         ELSE LET channelname == params[1] IN
              CASE cmd.method = "channels" ->
                     Call("list_channels", Null, Null)
                [] cmd.method \in {"preview_msg", "view_msg", "replay_msg"} ->
                     IF Len(params) < 2 THEN Raised("IndexError")
                     ELSE Call(cmd.method, channelname, params[2])
                [] cmd.method = "list_msgs" ->
                     IF Len(params) < 8 THEN Raised("IndexError")
                     ELSE Call("list_msgs", channelname, Null)
                [] cmd.method \in {"start_channel", "stop_channel"} ->
                     Call(cmd.method, channelname, Null)
                [] OTHER ->
                     [tag |-> "diagnostic", text |-> InvalidMethodText(cmd.method)]

(* ---------------------------------------------------------------------- *)
(* The handlers                                                            *)
(* ---------------------------------------------------------------------- *)
\* list_msgs: start and count when the request's query has none
DefaultStart == 0

DefaultCount == 10

MsgHandlers == {"preview_msg", "view_msg", "replay_msg"}

ChannelHandlers == {"start_channel", "stop_channel", "list_msgs"} \cup MsgHandlers

\* the one-entry result list of view_msg, preview_msg and replay_msg
ErrorEntry(desc) == [type |-> "entries", error |-> desc, content |-> Null]

ResultEntry(mid) == [type |-> "entries", error |-> Null, content |-> mid]

\* chan.to_dict() with its subchannels
Descriptor(i, status) ==
    [name |-> AllChannels[i].name, status |-> status[AllChannels[i].name],
     subchannels |-> {AllChannels[j].name : j \in
                        {k \in DOMAIN AllChannels :
                            AllChannels[k].parent = AllChannels[i].name}}]

\* mutation: list_channels lists every channel, sub-channels included
ListChannelsAll(status) ==
    [type |-> "channels",
     chans |-> {Descriptor(i, status) : i \in DOMAIN AllChannels}]

\* list_channels: one descriptor per channel without parent
ListChannels(status) ==
    [type |-> "channels",
     chans |-> {Descriptor(i, status) : i \in
                  {k \in DOMAIN AllChannels : AllChannels[k].parent = Null}}]

StatusReply(c, status) == [type |-> "status", name |-> c, status |-> status[c]]

\* mutation: the status is read before chan.start() or chan.stop() is awaited
StatusBeforeAwait(before, after) == before

\* chan.status is read after "await chan.start()" / "await chan.stop()"
StatusAtReply(before, after) == after

Min(a, b) == IF a < b THEN a ELSE b

\* the keys of the list_msgs query, in the order of params[1..7]
QueryKeys == <<"start", "count", "order_by", "start_dt", "end_dt", "text", "rtext">>

\* a query with no key (Null: the key is absent)
EmptyQuery == [k \in {QueryKeys[i] : i \in DOMAIN QueryKeys} |-> Null]

\* int() of the decimal texts clients send
ToInt(str) ==
    CASE str = "0" -> 0 [] str = "1" -> 1 [] str = "2" -> 2 [] str = "5" -> 5

\* query_params of backport_old_client: position i of params under key i,
\* the None values filtered out
QueryParams(params) ==
    [k \in DOMAIN EmptyQuery |->
        params[1 + CHOOSE i \in DOMAIN QueryKeys : QueryKeys[i] = k]]

\* URL.update_query: a new URL whose query has the given keys replaced
UpdateQuery(q, qp) == [k \in DOMAIN q |-> IF qp[k] # Null THEN qp[k] ELSE q[k]]

\* request.rel_url.query after "request.rel_url.update_query(query_params)":
\* the URL is immutable and the URL the call returns is not kept
RelUrlQueryAfterUpdate(q, qp) == q

\* list_msgs: the search arguments read from request.rel_url.query
SearchArgs(q) ==
    [start    |-> IF q.start = Null THEN DefaultStart ELSE ToInt(q.start),
     count    |-> IF q.count = Null THEN DefaultCount ELSE ToInt(q.count),
     order_by |-> IF q.order_by = Null THEN "timestamp" ELSE q.order_by,
     start_dt |-> q.start_dt,
     end_dt   |-> q.end_dt,
     text     |-> q.text,
     rtext    |-> q.rtext]

NoArgs == [start |-> -1]

\* message_store.search: how many entries it returns from a store of that
\* size, at most count of them from offset start on
Search(size, args) ==
    Min(args.count, IF size > args.start THEN size - args.start ELSE 0)

\* mutation: total is the number of entries on the page
TotalIsPageLength(found, size) == found

\* 'total': await chan.message_store.total()
TotalOf(found, size) == size

\* the response of list_msgs
ListMsgsReply(found, size) ==
    [type |-> "msgs", messages |-> found, total |-> TotalOf(found, size)]

\* a handler up to its first suspension on a collaborator: it replies at
\* once, raises, or awaits the channel or its store
HandlerBegin(call) ==
    LET chan == GetChannel(call.channelname) IN
    CASE call.handler = "list_channels" ->
            [tag |-> "reply", value |-> ListChannels(chanStatus), caught |-> "none"]
      [] call.handler \in {"start_channel", "stop_channel", "list_msgs"} ->
            IF chan = Null THEN Raised("AttributeError")
            ELSE [tag |-> "await", op |-> call.handler, chan |-> chan,
                  message_id |-> call.message_id, found |-> 0]
      [] call.handler \in MsgHandlers ->
            IF chan = Null
            THEN [tag |-> "reply", value |-> ErrorEntry("AttributeError"),
                  caught |-> "AttributeError"]
            ELSE [tag |-> "await", op |-> call.handler, chan |-> chan,
                  message_id |-> call.message_id, found |-> 0]

SessionIdle ==
    /\ spc = "closed"
    /\ cur = NoFrame
    /\ rpc_data = NoData
    /\ wsTruthy = TRUE
    /\ hws = "rpc"
    /\ called = "none"
    /\ caught = "none"
    /\ pending = NoPending
    /\ frameSent = 0
    /\ lastSent = NoResult
    /\ error = "none"
    /\ nframes = 0
    /\ chanStatus = [c \in ChannelNames |-> "stopped"]
    /\ store = [c \in ChannelNames |-> 1]
    /\ relQuery = EmptyQuery
    /\ searchArgs = NoArgs
    /\ otherOps = 0

\* ws = RPCWebSocketResponse(); await ws.prepare(request)
SessionInit ==
    /\ spc = "recv"
    /\ cur = NoFrame
    /\ rpc_data = NoData
    /\ wsTruthy \in BOOLEAN
    /\ hws = "rpc"
    /\ called = "none"
    /\ caught = "none"
    /\ pending = NoPending
    /\ frameSent = 0
    /\ lastSent = NoResult
    /\ error = "none"
    /\ nframes = 0
    /\ chanStatus \in [ChannelNames -> {"stopped", "started"}]
    /\ store = [c \in ChannelNames |-> 1]
    /\ relQuery = EmptyQuery
    /\ searchArgs = NoArgs
    /\ otherOps = 0

\* await ws.send_str(message) with the session going to okpc afterwards; an
\* exception raised by send_str ends the session coroutine
\* mutation: the loop swallows the exception and waits for the next frame
AfterRaiseContinues(exc) == "recv"

\* no try of backport_old_client encloses a send_str or a handler call, so
\* an exception of either leaves the coroutine
AfterRaise(exc) == "raised"

\* mutation: handlers are scheduled without being awaited, so the loop takes
\* the next frame while one is suspended
LoopTakesFrameWhileAwaiting(pc) == pc \in {"recv", "await"}

\* "async for msg in ws" takes a frame only between two runs of the loop
\* body, which awaits the handler it calls
LoopTakesFrame(pc) == pc = "recv"

Send(ws, rpc, message, okpc, sentBefore) ==
    LET r == IF ws = "rpc" THEN RPCSendStr(rpc, message)
             ELSE PlainSendStr(message) IN
    IF r.tag = "raise"
    THEN /\ spc' = AfterRaise(r.exc)
         /\ error' = r.exc
         /\ frameSent' = sentBefore
         /\ UNCHANGED lastSent
    ELSE /\ spc' = okpc
         /\ frameSent' = sentBefore + 1
         /\ lastSent' = r
         /\ UNCHANGED error

Fail(exc) ==
    /\ spc' = AfterRaise(exc)
    /\ error' = exc
    /\ frameSent' = 0
    /\ UNCHANGED lastSent

\* the next frame arrives and the loop body runs up to its first suspension
Receive(data) ==
    /\ LoopTakesFrame(spc)
    /\ nframes < MaxFrames
    /\ nframes' = nframes + 1
    /\ cur' = data
    /\ LET loaded == JsonLoads(data) IN
       IF loaded.tag = "raise"
       THEN /\ Send("rpc", rpc_data, ParseErrorText(data), "returned", 0)
            /\ called' = "none"
            /\ caught' = "none"
            /\ UNCHANGED <<rpc_data, hws, pending, chanStatus, store, relQuery,
                           searchArgs, otherOps>>
       ELSE LET cmd == loaded.value
                rpc == SetRpcAttrs(rpc_data, cmd)
                plan == Dispatch(cmd)
                begin == IF plan.tag = "call" THEN HandlerBegin(plan) ELSE plan
            IN
            /\ rpc_data' = rpc
            /\ hws' = IF plan.tag = "call"
                      THEN HandlerWs(plan.handler, wsTruthy) ELSE "rpc"
            /\ called' = IF plan.tag = "call" THEN plan.handler ELSE "none"
            /\ caught' = IF begin.tag = "reply" THEN begin.caught ELSE "none"
            /\ UNCHANGED <<store, otherOps>>
            /\ relQuery' = IF plan.tag = "call" /\ plan.handler = "list_msgs"
                           THEN RelUrlQueryAfterUpdate(relQuery,
                                                       QueryParams(cmd.params))
                           ELSE relQuery
            /\ searchArgs' = IF begin.tag = "await" /\ begin.op = "list_msgs"
                             THEN SearchArgs(relQuery') ELSE searchArgs
            /\ CASE begin.tag = "raise" ->
                      /\ Fail(begin.exc)
                      /\ UNCHANGED <<pending, chanStatus>>
                 [] begin.tag = "diagnostic" ->
                      /\ Send("rpc", rpc, begin.text, "recv", 0)
                      /\ UNCHANGED <<pending, chanStatus>>
                 [] begin.tag = "reply" ->
                      /\ Send(HandlerWs(plan.handler, wsTruthy), rpc,
                              JsonDumps(begin.value), "recv", 0)
                      /\ UNCHANGED <<pending, chanStatus>>
                 [] begin.tag = "await" ->
                      /\ spc' = "await"
                      /\ pending' = begin
                      /\ frameSent' = 0
                      /\ chanStatus' =
                            CASE begin.op = "start_channel" ->
                                    [chanStatus EXCEPT ![begin.chan] = "starting"]
                              [] begin.op = "stop_channel" ->
                                    [chanStatus EXCEPT ![begin.chan] = "stopping"]
                              [] OTHER -> chanStatus
                      /\ UNCHANGED <<lastSent, error>>
    /\ UNCHANGED <<wsTruthy, threadVars, chainVars>>

\* message_store.search returns its page; list_msgs renders the entries and
\* awaits message_store.total()
ResumeSearch ==
    /\ spc = "await"
    /\ pending.op = "list_msgs"
    /\ pending' = [pending EXCEPT
                      !.op = "list_msgs_total",
                      !.found = Search(store[pending.chan], searchArgs)]
    /\ UNCHANGED <<spc, cur, rpc_data, wsTruthy, hws, called, caught, frameSent,
                   lastSent, error, nframes, chanStatus, store, relQuery,
                   searchArgs, otherOps>>
    /\ UNCHANGED <<threadVars, chainVars>>

\* the awaited collaborator call completes; the handler builds its response
\* and sends it
Resume ==
    /\ spc = "await"
    /\ pending.op # "list_msgs"
    /\ LET c == pending.chan
           known == pending.message_id \in StoredIds(store[c])
           status == CASE pending.op = "start_channel" ->
                            [chanStatus EXCEPT ![c] = "started"]
                       [] pending.op = "stop_channel" ->
                            [chanStatus EXCEPT ![c] = "stopped"]
                       [] OTHER -> chanStatus
           stored == IF pending.op = "replay_msg" /\ known
                     THEN [store EXCEPT ![c] = @ + 1] ELSE store
           value == CASE pending.op \in {"start_channel", "stop_channel"} ->
                            StatusReply(c, StatusAtReply(chanStatus, status))
                      [] pending.op = "list_msgs_total" ->
                            ListMsgsReply(pending.found, store[c])
                      [] OTHER -> IF known THEN ResultEntry(pending.message_id)
                                  ELSE ErrorEntry("not found")
       IN
       /\ chanStatus' = status
       /\ store' = stored
       /\ caught' = IF pending.op \in MsgHandlers /\ ~known
                    THEN "not found" ELSE "none"
       /\ Send(hws, rpc_data, JsonDumps(value), "recv", 0)
    /\ pending' = NoPending
    /\ UNCHANGED <<cur, rpc_data, wsTruthy, hws, called, nframes, relQuery,
                   searchArgs, otherOps>>
    /\ UNCHANGED <<threadVars, chainVars>>

\* another session's replay_msg stores one more message in the same store
OtherSessionReplay(c) ==
    /\ otherOps < MaxOther
    /\ otherOps' = otherOps + 1
    /\ store' = [store EXCEPT ![c] = @ + 1]
    /\ UNCHANGED <<spc, cur, rpc_data, wsTruthy, hws, called, caught, pending,
                   frameSent, lastSent, error, nframes, chanStatus, relQuery,
                   searchArgs>>
    /\ UNCHANGED <<threadVars, chainVars>>

\* the client closes the socket: the async for ends and the coroutine returns
ClientClose ==
    /\ spc = "recv"
    /\ spc' = "closed"
    /\ UNCHANGED <<cur, rpc_data, wsTruthy, hws, called, caught, pending,
                   frameSent, lastSent, error, nframes, chanStatus, store,
                   relQuery, searchArgs, otherOps>>
    /\ UNCHANGED <<threadVars, chainVars>>

SessionNext ==
    \/ \E data \in FrameData : Receive(data)
    \/ ResumeSearch
    \/ Resume
    \/ ClientClose

\* the list_msgs and replay_msg commands of one channel, with positions 1..7
\* of params filled or null
ListParamLists ==
    {<<"chan_a", st, ct, Null, Null, Null, tx, Null>> :
        st \in {Null, "1"}, ct \in {Null, "1", "2"}, tx \in {Null, "abc"}}

StoreFrames ==
    {JsonDumps([type |-> "object", method |-> "list_msgs", id |-> 1,
                hasParams |-> TRUE, params |-> p]) : p \in ListParamLists}
    \cup {JsonDumps([type |-> "object", method |-> "replay_msg", id |-> 2,
                     hasParams |-> TRUE, params |-> <<"chan_a", "m1">>])}

\* a session opened on a URL that may carry a query, on stores of two sizes
StoreInit ==
    /\ spc = "recv"
    /\ cur = NoFrame
    /\ rpc_data = NoData
    /\ wsTruthy \in BOOLEAN
    /\ hws = "rpc"
    /\ called = "none"
    /\ caught = "none"
    /\ pending = NoPending
    /\ frameSent = 0
    /\ lastSent = NoResult
    /\ error = "none"
    /\ nframes = 0
    /\ chanStatus = [c \in ChannelNames |-> "started"]
    /\ store \in [ChannelNames -> {1, 3}]
    /\ relQuery \in {[EmptyQuery EXCEPT !.start = st, !.count = ct] :
                        st \in {Null, "1", "5"}, ct \in {Null, "1", "2"}}
    /\ searchArgs = NoArgs
    /\ otherOps = 0

StoreNext ==
    \/ \E data \in StoreFrames : Receive(data)
    \/ ResumeSearch
    \/ Resume
    \/ \E c \in ChannelNames : OtherSessionReplay(c)
    \/ ClientClose

(* ---------------------------------------------------------------------- *)
(* Specifications                                                          *)
(* ---------------------------------------------------------------------- *)
ThreadIdle ==
    /\ stage = "BaseNode"
    /\ tpc = [t \in Tasks |-> "idle"]
    /\ tmsg = [t \in Tasks |-> EmptyMessage]
    /\ texec = [t \in Tasks |-> 0]
    /\ executors = {}
    /\ workQueue = [e \in ExecutorIds |-> <<>>]
    /\ workerBusy = [e \in ExecutorIds |-> 0]
    /\ future = [t \in Tasks |-> NoResult]
    /\ outcome = [t \in Tasks |-> NoResult]

InitThread == ThreadInit /\ ChainIdle /\ SessionIdle

SpecThread == InitThread /\ [][ThreadNext]_vars

\* the worker threads run and the event loop services completed futures
FairSpecThread ==
    /\ SpecThread
    /\ \A e \in ExecutorIds :
          /\ WF_vars(WorkerStart(e))
          /\ WF_vars(WorkerFinish(e))
    /\ \A t \in Tasks : WF_vars(HandleResume(t))

InitChain == ChainInit /\ ThreadIdle /\ SessionIdle

\* the fields and items of the JSON texts submitted
FieldTokens == [k : StringTokens, v : {"1", "1.00", "null", "\"b\""}]

FieldLists == UNION {[1..n -> FieldTokens] : n \in 0..MaxFields}

ItemLists == UNION {[1..n -> {"1", "1.0", "null", "\"\\u0061\""}] : n \in 0..MaxFields}

\* parts joined by a comma, with a blank before it when spaced
RECURSIVE Written(_, _)
Written(parts, spaced) ==
    IF Len(parts) = 0 THEN <<>>
    ELSE IF Len(parts) = 1 THEN parts[1]
    ELSE parts[1] \o (IF spaced THEN <<" ", ",">> ELSE <<",">>)
                 \o Written(Tail(parts), spaced)

\* JSON texts as clients write them: compact, or with blanks where json.dumps
\* puts none
JsonTexts ==
    {<<tok>> : tok \in ScalarTokens}
    \cup {<<" ", tok, " ">> : tok \in ScalarTokens}
    \cup {<<"[">> \o Written([i \in DOMAIN l |-> <<l[i]>>], sp) \o <<"]">> :
            l \in ItemLists, sp \in BOOLEAN}
    \cup {<<"{">> \o Written([i \in DOMAIN l |->
                                IF sp THEN <<l[i].k, " ", ":", l[i].v>>
                                ELSE <<l[i].k, ":", l[i].v>>], sp) \o <<"}">> :
            l \in FieldLists, sp \in BOOLEAN}

\* texts json.loads rejects
BadTexts == {<<>>, <<"{">>, <<"1", "1">>, <<"{", "\"a\"", "}">>,
             <<"[", "1", ",", "]">>, <<"{", "\"a\"", ":", "1", ",", "}">>}

CodecChains == {<<"JsonToPython">>, <<"JsonToPython", "PythonToJson">>,
                <<"JsonToPython", "PythonToJson", "JsonToPython">>}

\* a text payload submitted to a chain of the two JSON nodes
CodecInit ==
    /\ chain \in CodecChains
    /\ cidx = 1
    /\ cinput \in [payload : {Text(x) : x \in JsonTexts \cup BadTexts},
                    content_type : {"application/json", "application/text"}]
    /\ cmsg = cinput
    /\ invoked = <<>>
    /\ report = "none"
    /\ output = NoResult

InitCodec == CodecInit /\ ThreadIdle /\ SessionIdle

SpecCodec == InitCodec /\ [][ChainNext]_vars

SpecChain == InitChain /\ [][ChainNext]_vars

InitSession == SessionInit /\ ThreadIdle /\ ChainIdle

SpecSession == InitSession /\ [][SessionNext]_vars

InitStore == StoreInit /\ ThreadIdle /\ ChainIdle

SpecStore == InitStore /\ [][StoreNext]_vars

(* ---------------------------------------------------------------------- *)
(* Properties of ThreadNode                                                *)
(* ---------------------------------------------------------------------- *)
\* C1: at most one process call of the one stage instance runs at a time.
C1_ProcessSerialized == Cardinality(Running) <= 1

\* C9: an exception process raises on the worker is what handle raises to its
\* caller (a plain Exception is an Error outcome, never a returned message),
\* and every invocation that entered handle returns, whatever the others did.
C9_FailureDelivered ==
    /\ [](\A t \in Tasks :
            (tpc[t] = "returned" /\ Process(stage, tmsg[t]).tag = "raise") =>
                /\ outcome[t] = Process(stage, tmsg[t])
                /\ (outcome[t].exc = "Exception" =>
                        ExecutionResult(outcome[t]).tag = "Error"))
    /\ \A t \in Tasks : (tpc[t] = "submitted") ~> (tpc[t] = "returned")

C9_Witness ==
    \E t, u \in Tasks :
        /\ t # u
        /\ tpc[t] = "returned"
        /\ ExecutionResult(outcome[t]).tag = "Error"
        /\ tpc[u] = "running"

\* C10: every invocation in progress holds an executor of its own, no other
\* executor is alive, and none is left once the invocations have returned.
C10_ExecutorScoped ==
    /\ Cardinality(executors) = Cardinality(InProgress)
    /\ \A t \in InProgress : texec[t] \in executors
    /\ \A t, u \in InProgress : t # u => texec[t] # texec[u]
    /\ (\A t \in Tasks : tpc[t] = "returned") => executors = {}

C10_Witness ==
    /\ \A t \in Tasks : tpc[t] = "returned"
    /\ \E t \in Tasks : outcome[t].tag = "raise"
    /\ executors = {}

(* ---------------------------------------------------------------------- *)
(* Properties of the chain walk                                            *)
(* ---------------------------------------------------------------------- *)
\* the positions 1..k in order
UpTo(k) == [i \in 1..k |-> i]

IsPrefix(a, b) == Len(a) <= Len(b) /\ \A i \in 1..Len(a) : a[i] = b[i]

\* every stage before position k hands its message on
ReachesStage(k) == \A j \in 1..(k - 1) : Continues(chain[j])

\* C7 as stated: a DropNode at position k, wherever it stands and whatever
\* precedes it, has stages 1..k invoked in order and none after, nothing
\* forwarded, and the message reported as consumed.
C7_DropAnywhere ==
    \A k \in DOMAIN chain :
        chain[k] = "DropNode" =>
            /\ IsPrefix(invoked, UpTo(k))
            /\ report # "none" =>
                  /\ invoked = UpTo(k)
                  /\ report = "consumed"
                  /\ output = NoResult

\* C7 amended: a DropNode at position k that the walk reaches (every stage
\* before k continues) has stages 1..k invoked in order and none after,
\* nothing forwarded, and the message reported as consumed, not as an error.
C7_DropStopsChain ==
    \A k \in DOMAIN chain :
        (chain[k] = "DropNode" /\ ReachesStage(k)) =>
            /\ IsPrefix(invoked, UpTo(k))
            /\ report # "none" =>
                  /\ invoked = UpTo(k)
                  /\ report = "consumed"
                  /\ output = NoResult

C7_Witness ==
    /\ Len(chain) = 3
    /\ chain[1] = "Empty"
    /\ chain[2] = "DropNode"
    /\ invoked = <<1, 2>>
    /\ report = "consumed"

\* C8 as stated: a BreakNode at position k, wherever it stands and whatever
\* precedes it, has no stage after k invoked and the message as it stood at
\* the BreakNode reported as the output of a successful early end.
C8_BreakAnywhere ==
    \A k \in DOMAIN chain :
        chain[k] = "BreakNode" =>
            /\ IsPrefix(invoked, UpTo(k))
            /\ report # "none" =>
                  /\ report = "terminated_early"
                  /\ output = MessageAfter(chain, cinput, k - 1)

\* C8 amended: a BreakNode at position k that the walk reaches (every stage
\* before k continues) has no stage after k invoked, and the output reported
\* is the message as stages 1..k-1 left it, as a success.
C8_BreakKeepsMessage ==
    \A k \in DOMAIN chain :
        (chain[k] = "BreakNode" /\ ReachesStage(k)) =>
            /\ IsPrefix(invoked, UpTo(k))
            /\ report # "none" =>
                  /\ invoked = UpTo(k)
                  /\ report = "terminated_early"
                  /\ output = MessageAfter(chain, cinput, k - 1)

C8_Witness ==
    /\ Len(chain) = 3
    /\ chain[1] = "Empty"
    /\ chain[2] = "BreakNode"
    /\ report = "terminated_early"
    /\ output = EmptyMessage
    /\ output # cinput

(* ---------------------------------------------------------------------- *)
(* Properties of the legacy session                                        *)
(* ---------------------------------------------------------------------- *)
\* the current frame decoded to a JSON object
IsCommand ==
    /\ nframes > 0
    /\ JsonLoads(cur).tag = "ok"
    /\ JsonLoads(cur).value.type = "object"

CurCmd == JsonLoads(cur).value

CurParams == IF CurCmd.hasParams THEN CurCmd.params ELSE <<Null>>

\* C2: a frame that is not JSON gets exactly one diagnostic frame, and the
\* session handler then returns.
C2_MalformedFrameOneDiagnostic ==
    (nframes > 0 /\ JsonLoads(cur).tag = "raise") =>
        /\ spc = "returned"
        /\ frameSent = 1

\* C3: a command whose method is unknown gets a diagnostic frame, no handler
\* is invoked and the loop goes on. Stated for commands that carry an id and
\* a first params position, so that nothing but the unknown method is wrong.
C3_UnknownMethodDiagnostic ==
    (/\ IsCommand
     /\ CurCmd.method \notin KnownMethods \cup {NoMethod}
     /\ CurCmd.id # NoId
     /\ Len(CurParams) >= 1) =>
        /\ called = "none"
        /\ spc \in {"recv", "closed"}
        /\ frameSent = 1

\* C4: a response frame sent for the current command carries the id of that
\* command, never the id of a command before it. Stated for commands that
\* carry an id.
C4_ResponseTaggedWithRequestId ==
    (frameSent > 0 /\ IsCommand /\ CurCmd.id # NoId) =>
        /\ lastSent.tag = "frame"
        /\ lastSent.id = CurCmd.id

\* C5: when the lookup or replay of view_msg, preview_msg or replay_msg
\* fails, the handler raises nothing, one response whose entry is the error
\* is sent, and the session goes on to the next command. Stated for commands
\* that name an existing channel, so that the lookup is what fails.
C5_LookupFailureIsolated ==
    (/\ IsCommand
     /\ called \in MsgHandlers
     /\ GetChannel(CurParams[1]) # Null
     /\ caught # "none") =>
        /\ spc \in {"recv", "closed"}
        /\ frameSent = 1
        /\ lastSent.result = ErrorEntry(caught)

\* C6: a command naming a channel that does not exist gets an error entry in
\* a normal response, for every method that takes a channel name; the
\* session does not end. Stated for commands that carry an id.
C6_ChannelNotFoundIsolated ==
    (/\ IsCommand
     /\ called \in ChannelHandlers
     /\ CurCmd.id # NoId
     /\ GetChannel(CurParams[1]) = Null) =>
        /\ spc \in {"recv", "closed"}
        /\ frameSent = 1
        /\ lastSent.result.type = "entries"
        /\ lastSent.result.error # Null

(***************************************************************************)
(* list_msgs: the query and the store                                      *)
(***************************************************************************)

\* the search argument a legacy parameter stands for
ArgOf(k, v) == IF k \in {"start", "count"} THEN ToInt(v) ELSE v

\* the defaults of list_msgs
DefaultArgs == SearchArgs(EmptyQuery)

ListMsgsSearched ==
    /\ IsCommand
    /\ CurCmd.method = "list_msgs"
    /\ called = "list_msgs"
    /\ searchArgs # NoArgs

\* C11: for a legacy list_msgs command, every non-null value at positions
\* 1..7 of params reaches message_store.search as the argument of that
\* position, and every null position gets the handler's default
C11_LegacyParamsReachSearch ==
    ListMsgsSearched =>
        \A i \in DOMAIN QueryKeys :
            LET k == QueryKeys[i]
                v == CurParams[i + 1]
            IN  searchArgs[k] = IF v # Null THEN ArgOf(k, v) ELSE DefaultArgs[k]

\* C12: list_msgs sends at most count entries, and its total is the size of
\* the channel's store when the response is built, whatever other sessions
\* stored between the handler's suspension points
C12_PageBoundedTotalIsStoreSize ==
    [][(called = "list_msgs" /\ spc = "await" /\ frameSent' = 1) =>
          /\ lastSent'.tag = "frame"
          /\ lastSent'.result.messages <= searchArgs.count
          /\ lastSent'.result.total = store[pending.chan]]_vars

\* a page of 2 entries of a store that another session grew to 4 messages
\* while the handler was suspended
C12_Witness ==
    /\ called = "list_msgs"
    /\ frameSent = 1
    /\ otherOps > 0
    /\ lastSent.tag = "frame"
    /\ searchArgs.count = 2
    /\ lastSent.result.messages = 2
    /\ lastSent.result.total = 4

(***************************************************************************)
(* The legacy session: channels, malformed frames                          *)
(***************************************************************************)

\* what list_channels sends when it is called directly, on a socket of its own
DirectListChannels == PlainSendStr(JsonDumps(ListChannels(chanStatus))).result

TopLevel == {AllChannels[i].name : i \in
                {k \in DOMAIN AllChannels : AllChannels[k].parent = Null}}

ChildrenOf(name) == {AllChannels[i].name : i \in
                        {k \in DOMAIN AllChannels : AllChannels[k].parent = name}}

\* C13: the response to the legacy command "channels" carries the request's
\* id and wraps the data list_channels produces when called directly: one
\* descriptor per channel without parent, each with its sub-channels, and
\* none for a channel that has a parent
C13_LegacyChannelsSameAsDirect ==
    (IsCommand /\ CurCmd.method = "channels" /\ frameSent = 1) =>
        /\ lastSent.tag = "frame"
        /\ lastSent.id = CurCmd.id
        /\ lastSent.result = DirectListChannels
        /\ {d.name : d \in lastSent.result.chans} = TopLevel
        /\ \A d \in lastSent.result.chans :
              /\ d.subchannels = ChildrenOf(d.name)
              /\ d.status = chanStatus[d.name]

C13_Witness ==
    /\ IsCommand
    /\ CurCmd.method = "channels"
    /\ called = "list_channels"
    /\ frameSent = 1
    /\ lastSent.tag = "frame"
    /\ lastSent.id = 2
    /\ \E d \in lastSent.result.chans :
          d.name = "chan_a" /\ d.subchannels = {"chan_b"}

Malformed == nframes > 0 /\ JsonLoads(cur).tag = "raise"

\* C14: once a frame has failed JSON decoding, no handler is invoked for it
\* and the session takes no later frame
C14_NoCommandAfterMalformedFrame ==
    [][Malformed => (called = "none" /\ called' = "none"
                     /\ cur' = cur /\ nframes' = nframes)]_vars

\* the malformed frame was the second of the session, after a served command
C14_Witness ==
    /\ Malformed
    /\ nframes = 2
    /\ frameSent = 0
    /\ called = "none"
    /\ spc = "raised"

(***************************************************************************)
(* The legacy session: start and stop, one command at a time               *)
(***************************************************************************)

\* C16: start_channel and stop_channel send their {name, status} response
\* only after chan.start() or chan.stop() has completed, and the status in it
\* is the one the channel has after that completion
C16_StatusReadAfterCompletion ==
    (called \in {"start_channel", "stop_channel"}) =>
        /\ spc = "await" => frameSent = 0
        /\ frameSent = 1 =>
              /\ lastSent.result.name = CurParams[1]
              /\ lastSent.result.status = chanStatus[CurParams[1]]
              /\ lastSent.result.status =
                    IF called = "start_channel" THEN "started" ELSE "stopped"

C16_Witness ==
    /\ called = "start_channel"
    /\ spc = "recv"
    /\ frameSent = 1
    /\ lastSent.result = [type |-> "status", name |-> "chan_a",
                          status |-> "started"]

\* C19: every decodable frame with a known method gets exactly one response
\* and leaves the loop running, also without "id" or with a params array
\* shorter than the positions the method reads. Stated for commands that
\* name an existing channel or need none.
C19_EveryKnownCommandAnswered ==
    (/\ IsCommand
     /\ CurCmd.method \in KnownMethods
     /\ spc # "await"
     /\ \/ CurCmd.method = "channels"
        \/ GetChannel(CurParams[1]) # Null) =>
        /\ frameSent = 1
        /\ spc \in {"recv", "closed"}

\* C20: the loop takes the next frame only after the response to the frame
\* before it was sent; no frame is taken while a handler is suspended, and a
\* frame gets at most one response
C20_OneCommandAtATime ==
    /\ [](frameSent <= 1 /\ (spc = "await" => frameSent = 0))
    /\ [][nframes' # nframes =>
            /\ spc = "recv"
            /\ pending = NoPending
            /\ nframes > 0 => frameSent = 1]_vars

\* a second command was taken and answered after a first one that suspended
C20_Witness ==
    /\ nframes = 2
    /\ called = "stop_channel"
    /\ frameSent = 1
    /\ spc = "recv"

(***************************************************************************)
(* Outcome kinds of the built-in stages and of the offloaded stage          *)
(***************************************************************************)

\* C17: whenever the runner invokes a stage, RaiseError yields Error,
\* DropNode yields Drop, BreakNode yields Break, and BaseNode yields Continue
\* with the message unchanged; no kind is reported as another
C17_ForcedStagesYieldOwnKind ==
    [][invoked' # invoked =>
        LET kind == chain[cidx] IN
        /\ kind = "RaiseError" => report' = "error"
        /\ kind = "DropNode" => report' = "consumed"
        /\ kind = "BreakNode" => report' = "terminated_early"
        /\ kind = "BaseNode" =>
              (report' = "none" /\ cmsg' = cmsg /\ cidx' = cidx + 1)
        /\ report' = "error" => kind = "RaiseError"
        /\ report' = "consumed" => kind = "DropNode"
        /\ report' = "terminated_early" => kind = "BreakNode"]_vars

\* an identity stage handed the message on unchanged to a forced-Error stage
C17_Witness ==
    /\ Len(chain) >= 2
    /\ chain[1] = "BaseNode"
    /\ chain[2] = "RaiseError"
    /\ invoked = <<1, 2>>
    /\ cmsg = cinput
    /\ report = "error"

\* C18: ThreadNode.handle yields what BaseNode.handle yields for the same
\* process and message, of the same outcome kind; a Dropped or Break raised
\* in the worker reaches the caller as Drop or Break
C18_OffloadKeepsOutcome ==
    \A t \in Tasks :
        tpc[t] = "returned" =>
            /\ outcome[t] = BaseNodeHandle(stage, tmsg[t])
            /\ ExecutionResult(outcome[t]).tag =
                  ExecutionResult(BaseNodeHandle(stage, tmsg[t])).tag
            /\ stage = "DropNode" => ExecutionResult(outcome[t]).tag = "Drop"
            /\ stage = "BreakNode" => ExecutionResult(outcome[t]).tag = "Break"

C18_Witness ==
    /\ stage = "DropNode"
    /\ \A t \in Tasks :
          tpc[t] = "returned" /\ ExecutionResult(outcome[t]).tag = "Drop"

(***************************************************************************)
(* The JSON round trip                                                     *)
(***************************************************************************)

\* structural equality of decoded values: the fields of a dict compare by
\* key, whatever their order
PyEqual(a, b) ==
    IF a.t = "dict" /\ b.t = "dict"
    THEN /\ {a.keys[i] : i \in DOMAIN a.keys} = {b.keys[i] : i \in DOMAIN b.keys}
         /\ \A i \in DOMAIN a.keys : \A j \in DOMAIN b.keys :
               a.keys[i] = b.keys[j] => a.vals[i] = b.vals[j]
    ELSE a = b

RoundTripDone ==
    /\ Len(chain) = 2
    /\ chain[1] = "JsonToPython"
    /\ chain[2] = "PythonToJson"
    /\ Loads(cinput.payload.toks).tag = "ok"
    /\ invoked # <<>>

\* C15: a chain of JsonToPython followed by PythonToJson, given a valid JSON
\* payload, runs both stages and ends with a payload that decodes to a value
\* structurally equal to the decoded input, every field kept, and with the
\* content_type 'application/json'
C15_JsonRoundTrip ==
    RoundTripDone =>
        /\ report \in {"none", "completed"}
        /\ report = "completed" =>
              /\ invoked = <<1, 2>>
              /\ output.content_type = "application/json"
              /\ output.payload.t = "text"
              /\ Loads(output.payload.toks).tag = "ok"
              /\ PyEqual(Loads(output.payload.toks).value,
                         Loads(cinput.payload.toks).value)

\* an object written with blanks before its separators, one key spelled with
\* an escape, a float with a trailing zero and a null field
C15_Witness ==
    /\ RoundTripDone
    /\ report = "completed"
    /\ cinput.payload.toks = <<"{", "\"\\u0061\"", " ", ":", "1.00", " ", ",",
                               "\"b\"", " ", ":", "null", "}">>
    /\ output.payload.toks = <<"{", "\"a\"", ":", " ", "1.0", ",", " ",
                               "\"b\"", ":", " ", "null", "}">>

====
